---- MODULE Spec2Model ----
(***************************************************************************)
(* Contrast resolution and level aggregation of                            *)
(* fitlins/interfaces/nistats.py: prepare_contrasts, _flatten, _match and  *)
(* the contrast loops of FirstLevelModel._run_interface and                *)
(* SecondLevelModel._run_interface.                                        *)
(*                                                                         *)
(* A Python dict is a function whose domain is its key set.  An image is   *)
(* known only by the call that produced it: the statistics engine and the  *)
(* fixed-effects combiner are external, so a map is the record of the      *)
(* engine, the output kind and the arguments of the call.                  *)
(***************************************************************************)
EXTENDS Integers, Sequences, FiniteSets, TLC

----------------------------------------------------------------------------
(* Bounds of the explored inputs. *)

\* declarations in contrast_info
MaxContrasts == 2
\* weight rows in contrast_info, all declarations together
MaxRows == 2
\* entries in each flattened upstream list
MaxInputs == 2

----------------------------------------------------------------------------
(* Value universes. *)

\* regressor names (at the second level: upstream contrast names), listed in
\* ascending string order
RegNames == <<"A", "B">>
RegSet == {RegNames[i] : i \in 1..Len(RegNames)}
WeightVals == {0, 1}
ConNames == {"x", "y"}
ContrastTypes == {"T", "FEMA"}
\* Python's None, different from every string value used here
None == "<None>"
\* runtime.cwd
Cwd == "/cwd"
EmptyDict == [k \in {} |-> None]

Min(a, b) == IF a < b THEN a ELSE b

----------------------------------------------------------------------------
(* Pure functions of the module. *)

\* dict.get(key): the value, or None when the key is absent
DictGet(d, key) == IF key \in DOMAIN d THEN d[key] ELSE None

\* {**a, **b}: the keys of both, b's value where both have the key
DictMerge(a, b) ==
    [k \in (DOMAIN a) \cup (DOMAIN b) |-> IF k \in DOMAIN b THEN b[k] ELSE a[k]]

InSeq(x, s) == \E i \in 1..Len(s) : s[i] = x

\* seq[mask] for a boolean mask of the same length
BoolIndex(s, mask) ==
    LET idx == SelectSeq([i \in 1..Len(s) |-> i], LAMBDA i : mask[i])
    IN  [k \in 1..Len(idx) |-> s[idx[k]]]

RECURSIVE _flatten(_)
_flatten(x) == IF x = <<>> THEN <<>> ELSE Head(x) \o _flatten(Tail(x))

_match(query, metadata) ==
    \A key \in DOMAIN query : ~(DictGet(metadata, key) # query[key])

\* Missing without its test v != 0
Missing_any_weight(contrast, all_regressors) ==
    \E r \in 1..Len(contrast.weights) :
        {n \in DOMAIN contrast.weights[r] : ~InSeq(n, all_regressors)} # {}

\* any([[n for n, v in row.items() if v != 0 and n not in all_regressors] ...])
Missing(contrast, all_regressors) ==
    \E r \in 1..Len(contrast.weights) :
        {n \in DOMAIN contrast.weights[r] :
            contrast.weights[r][n] # 0 /\ ~InSeq(n, all_regressors)} # {}

\* FillRow walking the regressors in name order instead of design order
FillRow_name_order(row, all_regressors) ==
    LET cols == SelectSeq(RegNames, LAMBDA n : InSeq(n, all_regressors))
    IN  [j \in 1..Len(all_regressors) |-> IF cols[j] \in DOMAIN row THEN row[cols[j]] ELSE 0]

\* [row[col] if col in row else 0 for col in all_regressors]
FillRow(row, all_regressors) ==
    [j \in 1..Len(all_regressors) |->
        IF all_regressors[j] \in DOMAIN row THEN row[all_regressors[j]] ELSE 0]

FillWeights(contrast, all_regressors) ==
    [r \in 1..Len(contrast.weights) |-> FillRow(contrast.weights[r], all_regressors)]

\* the resolved contrasts, each a tuple <<name, weights, type>>
RECURSIVE prepare_contrasts(_, _)
prepare_contrasts(contrasts, all_regressors) ==
    IF contrasts = <<>> THEN <<>>
    ELSE LET contrast == Head(contrasts)
             rest == prepare_contrasts(Tail(contrasts), all_regressors)
         IN  IF ~Missing(contrast, all_regressors)
             THEN << <<contrast.name, FillWeights(contrast, all_regressors),
                       contrast.type>> >> \o rest
             ELSE rest

RECURSIVE FirstSeen(_)
FirstSeen(s) ==
    IF s = <<>> THEN <<>>
    ELSE LET before == FirstSeen(SubSeq(s, 1, Len(s) - 1))
         IN  IF InSeq(s[Len(s)], before) THEN before ELSE Append(before, s[Len(s)])

\* DummyColumns keeping the order in which the names first appear
DummyColumns_first_seen(names) == FirstSeen(names)

\* the columns of pd.get_dummies(names): the distinct names in ascending order
\* (pandas builds the columns from the sorted categories of the values)
DummyColumns(names) ==
    SelectSeq(RegNames, LAMBDA n : InSeq(n, names))

\* pd.get_dummies(names): one row per name, one indicator column per level
get_dummies(names) ==
    LET cols == DummyColumns(names)
    IN  [columns |-> cols,
         rows |-> [i \in 1..Len(names) |->
                     [j \in 1..Len(cols) |-> IF names[i] = cols[j] THEN 1 ELSE 0]]]

\* os.path.join(runtime.cwd, '{}_{}.nii.gz').format
fname_fmt(name, map_type) == Cwd \o "/" \o name \o "_" \o map_type \o ".nii.gz"

\* the order in which both contrast loops walk the output kinds
MapTypes == <<"effect_size", "effect_variance", "z_score", "p_value", "stat">>

\* an image returned by model.compute_contrast(weights, type, output_type='all')
ModelMap(kind, weights, contrast_type) ==
    [engine |-> "model", kind |-> kind, weights |-> weights, type |-> contrast_type,
     effects |-> <<>>, variances |-> <<>>]

\* an image returned by compute_fixed_effects(effects, variances)
FfxMap(kind, effects, variances) ==
    [engine |-> "ffx", kind |-> kind, weights |-> <<>>, type |-> "FEMA",
     effects |-> effects, variances |-> variances]

\* con_ix = weights[0].astype(bool)
ConIx(weights) == [j \in 1..Len(weights[1]) |-> weights[1][j] # 0]

\* dm_ix = mat.iloc[:, con_ix].any(axis=1)
DmIx(m, con_ix) ==
    [i \in 1..Len(m.rows) |->
        \E j \in 1..Len(m.columns) : con_ix[j] /\ m.rows[i][j] # 0]

\* ContrastMetadata with the entities merged first
ContrastMetadata_entities_first(name, contrast_type, ents) ==
    DictMerge(ents, [contrast |-> name, stat |-> contrast_type])

\* {'contrast': name, 'stat': contrast_type, **out_ents}
ContrastMetadata(name, contrast_type, ents) ==
    DictMerge([contrast |-> name, stat |-> contrast_type], ents)

----------------------------------------------------------------------------
(* State. *)

VARIABLES
    iface,              \* the interface that runs: "first", "second" or "match"
    pc,                 \* position in _run_interface
    error,              \* the exception that ended the run, "" when none
    contrast_info,      \* inputs.contrast_info
    design_columns,     \* first level: the columns of the design matrix read
    stat_metadata,      \* second level: inputs.stat_metadata (list of lists)
    in_effect_maps,     \* second level: inputs.effect_maps (list of lists)
    in_variance_maps,   \* second level: inputs.variance_maps (list of lists)
    out_ents,
    zi,                 \* position of the zip over the flattened inputs
    filtered_effects,
    filtered_variances,
    names,
    mat,                \* the design: its columns and indicator rows
    contrasts,          \* the resolved contrasts
    fitted,             \* whether the engine's fit has been called
    ci,                 \* position of the contrast loop
    effect_maps,
    variance_maps,
    stat_maps,
    zscore_maps,
    pvalue_maps,
    contrast_metadata,
    files,              \* the files written: path -> image
    results,            \* self._results
    query,              \* _match alone: its arguments, its result, and the
    candidate,          \* result and the edit of the candidate before it
    matched,
    prev_matched,
    edit

inputs == <<contrast_info, design_columns, stat_metadata, in_effect_maps,
            in_variance_maps>>
filtering == <<zi, filtered_effects, filtered_variances, names>>
outputs == <<effect_maps, variance_maps, stat_maps, zscore_maps, pvalue_maps,
             contrast_metadata, files>>
matching == <<query, candidate, matched, prev_matched, edit>>
vars == <<iface, pc, error, inputs, out_ents, filtering, mat, contrasts, fitted,
          ci, outputs, results, matching>>

----------------------------------------------------------------------------
(* Input sets. *)

\* a weight row: a dict from some regressor names to weights
Rows == UNION {[D -> WeightVals] : D \in SUBSET RegSet}

\* the lists of n weight blocks with at most r weight rows in all
RECURSIVE WeightLists(_, _)
WeightLists(n, r) ==
    IF n = 0 THEN {<<>>}
    ELSE UNION {{<<w>> \o ws : w \in [1..k -> Rows], ws \in WeightLists(n - 1, r - k)} :
                  k \in 0..r}

\* contrast lists for the resolution: any weight rows, the declarations named
\* c1, c2, ... and of type T
ResolveContrastLists ==
    {[i \in 1..Len(ws) |-> [name |-> "c" \o ToString(i), weights |-> ws[i], type |-> "T"]] :
        ws \in UNION {WeightLists(n, MaxRows) : n \in 0..MaxContrasts}}

\* contrast lists for the second-level loop: any names and types, over a few
\* weight blocks (no row, one regressor, a regressor weighed in a second row)
LoopWeights == {<<>>, <<[A |-> 1]>>, <<[A |-> 0], [B |-> 1]>>}

LoopDeclarations ==
    {[name |-> n, weights |-> w, type |-> t] :
        n \in ConNames, w \in LoopWeights, t \in ContrastTypes}

LoopContrastLists == UNION {[1..n -> LoopDeclarations] : n \in 0..MaxContrasts}

\* every declaration carries the entities of the analysis unit ("same for all")
WithEntities(cs, ents) ==
    [i \in 1..Len(cs) |->
        [name |-> cs[i].name, weights |-> cs[i].weights, type |-> cs[i].type,
         entities |-> ents]]

\* the regressor lists: the orderings of the subsets of the regressor names
RegLists ==
    {s \in UNION {[1..n -> RegSet] : n \in 0..Len(RegNames)} :
        \A i, j \in 1..Len(s) : i # j => s[i] # s[j]}

\* upstream metadata records, as a contrast loop emits them
MetaSet ==
    {[contrast |-> c, stat |-> "T"] : c \in RegSet}
    \cup {[contrast |-> c, stat |-> "T", subject |-> s] : c \in RegSet, s \in {"01", "02"}}

EntitySet ==
    {EmptyDict, [subject |-> "01"], [subject |-> None], [contrast |-> "A"],
     [subject |-> "01", stat |-> "F"]}

\* the entities of the runs of both contrast loops
RunEntities == {EmptyDict, [contrast |-> "A", stat |-> "T"]}

\* a flat list cut into sublists of at most `size` elements
RECURSIVE Chunks(_, _)
Chunks(s, size) ==
    IF Len(s) = 0 THEN <<>>
    ELSE <<SubSeq(s, 1, Min(size, Len(s)))>> \o Chunks(SubSeq(s, size + 1, Len(s)), size)

EffectFiles == [i \in 1..MaxInputs |-> "eff" \o ToString(i)]
VarianceFiles == [i \in 1..MaxInputs |-> "var" \o ToString(i)]

MetaLists == UNION {[1..n -> MetaSet] : n \in 0..MaxInputs}

----------------------------------------------------------------------------
(* Initial states. *)

Idle ==
    /\ pc = "start" /\ error = ""
    /\ out_ents = EmptyDict
    /\ zi = 1 /\ filtered_effects = <<>> /\ filtered_variances = <<>> /\ names = <<>>
    /\ mat = [columns |-> <<>>, rows |-> <<>>]
    /\ contrasts = <<>> /\ fitted = FALSE /\ ci = 1
    /\ effect_maps = <<>> /\ variance_maps = <<>> /\ stat_maps = <<>>
    /\ zscore_maps = <<>> /\ pvalue_maps = <<>> /\ contrast_metadata = <<>>
    /\ files = EmptyDict /\ results = EmptyDict

NoMatching ==
    /\ query = EmptyDict /\ candidate = EmptyDict
    /\ matched = FALSE /\ prev_matched = FALSE /\ edit = ""

\* SecondLevelModel: the loop's contrast lists, paired upstream lists
InitSecond ==
    /\ iface = "second" /\ Idle /\ NoMatching
    /\ design_columns = <<>>
    /\ \E cs \in LoopContrastLists, e \in RunEntities :
           contrast_info = WithEntities(cs, e)
    /\ \E ms \in MetaLists :
           /\ \A i \in 1..Len(ms) : DOMAIN ms[i] = {"contrast", "stat"}
           /\ stat_metadata = Chunks(ms, 1)
           /\ in_effect_maps = Chunks(SubSeq(EffectFiles, 1, Len(ms)), 1)
           /\ in_variance_maps = Chunks(SubSeq(VarianceFiles, 1, Len(ms)), 1)

----------------------------------------------------------------------------
(* SecondLevelModel._run_interface. *)

FlatMetadata == _flatten(stat_metadata)
FlatEffects == _flatten(in_effect_maps)
FlatVariances == _flatten(in_variance_maps)
\* zip() stops with the shortest of its arguments
ZipLen == Min(Len(FlatMetadata), Min(Len(FlatEffects), Len(FlatVariances)))

\* contrast_info[0] of an empty list
L2NoContrastInfo ==
    /\ iface = "second" /\ pc = "start"
    /\ Len(contrast_info) = 0
    /\ pc' = "error" /\ error' = "IndexError"
    /\ UNCHANGED <<iface, inputs, out_ents, filtering, mat, contrasts, fitted, ci,
                   outputs, results, matching>>

L2Start ==
    /\ iface = "second" /\ pc = "start"
    /\ Len(contrast_info) > 0
    /\ out_ents' = contrast_info[1].entities
    /\ pc' = "filter"
    /\ UNCHANGED <<iface, error, inputs, filtering, mat, contrasts, fitted, ci,
                   outputs, results, matching>>

\* one turn of the zip loop
L2Filter ==
    /\ iface = "second" /\ pc = "filter"
    /\ zi <= ZipLen
    /\ LET m == FlatMetadata[zi]
       IN  IF _match(out_ents, m)
           THEN /\ filtered_effects' = Append(filtered_effects, FlatEffects[zi])
                /\ filtered_variances' = Append(filtered_variances, FlatVariances[zi])
                /\ names' = Append(names, m["contrast"])
           ELSE UNCHANGED <<filtered_effects, filtered_variances, names>>
    /\ zi' = zi + 1
    /\ UNCHANGED <<iface, pc, error, inputs, out_ents, mat, contrasts, fitted, ci,
                   outputs, results, matching>>

L2Design ==
    /\ iface = "second" /\ pc = "filter"
    /\ zi > ZipLen
    /\ mat' = get_dummies(names)
    /\ contrasts' = prepare_contrasts(contrast_info, mat'.columns)
    /\ pc' = "fit"
    /\ UNCHANGED <<iface, error, inputs, out_ents, filtering, fitted, ci, outputs,
                   results, matching>>

\* any(c[2] != 'FEMA' for c in contrasts)
AnyNonFema == \E k \in 1..Len(contrasts) : contrasts[k][3] # "FEMA"

\* TooFewInputs asking for one input only
TooFewInputs_one == Len(filtered_effects) < 1

\* len(filtered_effects) < 2
TooFewInputs == Len(filtered_effects) < 2

L2Raise ==
    /\ iface = "second" /\ pc = "fit"
    /\ AnyNonFema
    /\ TooFewInputs
    /\ pc' = "error" /\ error' = "RuntimeError"
    /\ UNCHANGED <<iface, inputs, out_ents, filtering, mat, contrasts, fitted, ci,
                   outputs, results, matching>>

L2Fit ==
    /\ iface = "second" /\ pc = "fit"
    /\ AnyNonFema
    /\ ~TooFewInputs
    /\ fitted' = TRUE
    /\ pc' = "loop"
    /\ UNCHANGED <<iface, error, inputs, out_ents, filtering, mat, contrasts, ci,
                   outputs, results, matching>>

L2NoFit ==
    /\ iface = "second" /\ pc = "fit"
    /\ ~AnyNonFema
    /\ pc' = "loop"
    /\ UNCHANGED <<iface, error, inputs, out_ents, filtering, mat, contrasts, fitted,
                   ci, outputs, results, matching>>

\* the maps of a FEMA contrast: the combiner's three results
FemaMaps(weights) ==
    LET dm_ix == DmIx(mat, ConIx(weights))
        effs == BoolIndex(filtered_effects, dm_ix)
        vars_ == BoolIndex(filtered_variances, dm_ix)
    IN  [effect_size |-> FfxMap("effect_size", effs, vars_),
         effect_variance |-> FfxMap("effect_variance", effs, vars_),
         stat |-> FfxMap("stat", effs, vars_)]

\* the maps of any other contrast: every kind, from the fitted model
ComputedMaps(weights, contrast_type) ==
    [t \in {MapTypes[i] : i \in 1..Len(MapTypes)} |-> ModelMap(t, weights, contrast_type)]

\* map_list.append(fname) for the kinds present in maps
Appended(map_list, map_type, name, maps) ==
    IF map_type \in DOMAIN maps THEN Append(map_list, fname_fmt(name, map_type))
    ELSE map_list

\* maps[map_type].to_filename(fname), in the order of MapTypes
RECURSIVE Written(_, _, _, _)
Written(fs, name, maps, i) ==
    IF i > Len(MapTypes) THEN fs
    ELSE LET t == MapTypes[i]
             f == fname_fmt(name, t)
         IN  IF t \in DOMAIN maps
             THEN Written([p \in (DOMAIN fs) \cup {f} |-> IF p = f THEN maps[t] ELSE fs[p]],
                          name, maps, i + 1)
             ELSE Written(fs, name, maps, i + 1)

\* the tail of one turn of a contrast loop
StoreMaps(name, maps) ==
    /\ effect_maps' = Appended(effect_maps, "effect_size", name, maps)
    /\ variance_maps' = Appended(variance_maps, "effect_variance", name, maps)
    /\ zscore_maps' = Appended(zscore_maps, "z_score", name, maps)
    /\ pvalue_maps' = Appended(pvalue_maps, "p_value", name, maps)
    /\ stat_maps' = Appended(stat_maps, "stat", name, maps)
    /\ files' = Written(files, name, maps, 1)

L2Fema ==
    /\ iface = "second" /\ pc = "loop"
    /\ ci <= Len(contrasts)
    /\ LET name == contrasts[ci][1]
           weights == contrasts[ci][2]
           contrast_type == contrasts[ci][3]
       IN  /\ contrast_type = "FEMA"
           /\ Len(weights) > 0
           /\ contrast_metadata' =
                  Append(contrast_metadata, ContrastMetadata(name, contrast_type, out_ents))
           /\ StoreMaps(name, FemaMaps(weights))
    /\ ci' = ci + 1
    /\ UNCHANGED <<iface, pc, error, inputs, out_ents, filtering, mat, contrasts,
                   fitted, results, matching>>

\* weights[0] of an empty weight array
L2FemaIndexError ==
    /\ iface = "second" /\ pc = "loop"
    /\ ci <= Len(contrasts)
    /\ LET name == contrasts[ci][1]
           weights == contrasts[ci][2]
           contrast_type == contrasts[ci][3]
       IN  /\ contrast_type = "FEMA"
           /\ Len(weights) = 0
           /\ contrast_metadata' =
                  Append(contrast_metadata, ContrastMetadata(name, contrast_type, out_ents))
    /\ pc' = "error" /\ error' = "IndexError"
    /\ UNCHANGED <<iface, inputs, out_ents, filtering, mat, contrasts, fitted, ci,
                   effect_maps, variance_maps, stat_maps, zscore_maps, pvalue_maps,
                   files, results, matching>>

L2Compute ==
    /\ iface = "second" /\ pc = "loop"
    /\ ci <= Len(contrasts)
    /\ LET name == contrasts[ci][1]
           weights == contrasts[ci][2]
           contrast_type == contrasts[ci][3]
       IN  /\ contrast_type # "FEMA"
           /\ contrast_metadata' =
                  Append(contrast_metadata, ContrastMetadata(name, contrast_type, out_ents))
           /\ StoreMaps(name, ComputedMaps(weights, contrast_type))
    /\ ci' = ci + 1
    /\ UNCHANGED <<iface, pc, error, inputs, out_ents, filtering, mat, contrasts,
                   fitted, results, matching>>

\* self._results of the second level: z-scores and p-values only when there are any
SecondResults ==
    LET base == [effect_maps |-> effect_maps, variance_maps |-> variance_maps,
                 stat_maps |-> stat_maps, contrast_metadata |-> contrast_metadata]
        z == IF zscore_maps # <<>> THEN [zscore_maps |-> zscore_maps] ELSE EmptyDict
        p == IF pvalue_maps # <<>> THEN [pvalue_maps |-> pvalue_maps] ELSE EmptyDict
    IN  DictMerge(DictMerge(base, z), p)

L2Finish ==
    /\ iface = "second" /\ pc = "loop"
    /\ ci > Len(contrasts)
    /\ results' = SecondResults
    /\ pc' = "done"
    /\ UNCHANGED <<iface, error, inputs, out_ents, filtering, mat, contrasts, fitted,
                   ci, outputs, matching>>

NextSecond ==
    \/ L2NoContrastInfo
    \/ L2Start
    \/ L2Filter
    \/ L2Design
    \/ L2Raise
    \/ L2Fit
    \/ L2NoFit
    \/ L2Fema
    \/ L2FemaIndexError
    \/ L2Compute
    \/ L2Finish

----------------------------------------------------------------------------
(* FirstLevelModel._run_interface, from the fit of the model on. *)

\* the model-level images, in the order of model_attr
ModelAttrs == <<"r_square", "log_likelihood">>

ModelAttrMap(attr) ==
    [engine |-> "model", kind |-> attr, weights |-> <<>>, type |-> "",
     effects |-> <<>>, variances |-> <<>>]

ModelMaps == [i \in 1..Len(ModelAttrs) |-> fname_fmt("model", ModelAttrs[i])]

\* {'stat': attr, **out_ents}
ModelMetadata(ents) ==
    [i \in 1..Len(ModelAttrs) |-> DictMerge([stat |-> ModelAttrs[i]], ents)]

\* contrast_info[0] of an empty list, after the fit
L1NoContrastInfo ==
    /\ iface = "first" /\ pc = "start"
    /\ Len(contrast_info) = 0
    /\ fitted' = TRUE
    /\ pc' = "error" /\ error' = "IndexError"
    /\ UNCHANGED <<iface, inputs, out_ents, filtering, mat, contrasts, ci, outputs,
                   results, matching>>

\* the fit, the entities, the model-level images, the resolution of the contrasts
L1Start ==
    /\ iface = "first" /\ pc = "start"
    /\ Len(contrast_info) > 0
    /\ fitted' = TRUE
    /\ out_ents' = contrast_info[1].entities
    /\ files' = [p \in {ModelMaps[i] : i \in 1..Len(ModelMaps)} |->
                    ModelAttrMap(ModelAttrs[CHOOSE i \in 1..Len(ModelMaps) : ModelMaps[i] = p])]
    /\ mat' = [columns |-> design_columns, rows |-> <<>>]
    /\ contrasts' = prepare_contrasts(contrast_info, design_columns)
    /\ pc' = "loop"
    /\ UNCHANGED <<iface, error, inputs, filtering, ci, effect_maps, variance_maps,
                   stat_maps, zscore_maps, pvalue_maps, contrast_metadata, results,
                   matching>>

L1Contrast ==
    /\ iface = "first" /\ pc = "loop"
    /\ ci <= Len(contrasts)
    /\ LET name == contrasts[ci][1]
           weights == contrasts[ci][2]
           contrast_type == contrasts[ci][3]
       IN  /\ contrast_metadata' =
                  Append(contrast_metadata, ContrastMetadata(name, contrast_type, out_ents))
           /\ StoreMaps(name, ComputedMaps(weights, contrast_type))
    /\ ci' = ci + 1
    /\ UNCHANGED <<iface, pc, error, inputs, out_ents, filtering, mat, contrasts,
                   fitted, results, matching>>

FirstResults ==
    [effect_maps |-> effect_maps, variance_maps |-> variance_maps,
     stat_maps |-> stat_maps, zscore_maps |-> zscore_maps,
     pvalue_maps |-> pvalue_maps, contrast_metadata |-> contrast_metadata,
     model_maps |-> ModelMaps, model_metadata |-> ModelMetadata(out_ents)]

L1Finish ==
    /\ iface = "first" /\ pc = "loop"
    /\ ci > Len(contrasts)
    /\ results' = FirstResults
    /\ pc' = "done"
    /\ UNCHANGED <<iface, error, inputs, out_ents, filtering, mat, contrasts, fitted,
                   ci, outputs, matching>>

NextFirst ==
    \/ L1NoContrastInfo
    \/ L1Start
    \/ L1Contrast
    \/ L1Finish

----------------------------------------------------------------------------
(* _match on its own: a call, then a call on an edited candidate. *)

MatchKeys == {"subject", "task"}
ExtraKeys == {"run"}
MatchVals == {"01", "02", None}

Dicts(keys, vals) == UNION {[D -> vals] : D \in SUBSET keys}

InitMatch ==
    /\ iface = "match" /\ Idle
    /\ contrast_info = <<>> /\ design_columns = <<>>
    /\ stat_metadata = <<>> /\ in_effect_maps = <<>> /\ in_variance_maps = <<>>
    /\ query \in Dicts(MatchKeys, {"01", None})
    /\ candidate \in Dicts(MatchKeys, MatchVals)
    /\ matched = FALSE /\ prev_matched = FALSE /\ edit = ""

MatchCall ==
    /\ iface = "match" /\ pc = "start"
    /\ matched' = _match(query, candidate)
    /\ pc' = "called"
    /\ UNCHANGED <<iface, error, inputs, out_ents, filtering, mat, contrasts, fitted,
                   ci, outputs, results, query, candidate, prev_matched, edit>>

\* the candidate gains a key the query does not have
MatchAddKey ==
    /\ iface = "match" /\ pc = "called"
    /\ \E k \in (MatchKeys \cup ExtraKeys) \ (DOMAIN query \cup DOMAIN candidate),
          v \in MatchVals :
           candidate' = DictMerge(candidate, [x \in {k} |-> v])
    /\ prev_matched' = matched
    /\ matched' = _match(query, candidate')
    /\ edit' = "add"
    /\ pc' = "edited"
    /\ UNCHANGED <<iface, error, inputs, out_ents, filtering, mat, contrasts, fitted,
                   ci, outputs, results, query>>

\* the candidate loses a key the query requires
MatchRemoveKey ==
    /\ iface = "match" /\ pc = "called"
    /\ \E k \in DOMAIN query \cap DOMAIN candidate :
           candidate' = [x \in DOMAIN candidate \ {k} |-> candidate[x]]
    /\ prev_matched' = matched
    /\ matched' = _match(query, candidate')
    /\ edit' = "remove"
    /\ pc' = "edited"
    /\ UNCHANGED <<iface, error, inputs, out_ents, filtering, mat, contrasts, fitted,
                   ci, outputs, results, query>>

NextMatch ==
    \/ MatchCall
    \/ MatchAddKey
    \/ MatchRemoveKey

----------------------------------------------------------------------------
(* Specifications. *)

\* FirstLevelModel: any regressor list, with the resolution's contrast lists or
\* with the loop's contrast lists of first-level types under either entities
InitFirst ==
    /\ iface = "first" /\ Idle /\ NoMatching
    /\ stat_metadata = <<>> /\ in_effect_maps = <<>> /\ in_variance_maps = <<>>
    /\ \/ \E cs \in ResolveContrastLists : contrast_info = WithEntities(cs, EmptyDict)
       \/ \E cs \in LoopContrastLists, e \in RunEntities :
              /\ \A i \in 1..Len(cs) : cs[i].type # "FEMA"
              /\ contrast_info = WithEntities(cs, e)
    /\ design_columns \in RegLists

\* SecondLevelModel: a few contrast lists, any upstream lists of any lengths
FilterContrastLists ==
    {<<>>,
     <<[name |-> "x", weights |-> <<[A |-> 1]>>, type |-> "FEMA"]>>,
     <<[name |-> "x", weights |-> <<>>, type |-> "FEMA"]>>,
     <<[name |-> "y", weights |-> <<[A |-> 1, B |-> 0]>>, type |-> "T"]>>}

InitFilter ==
    /\ iface = "second" /\ Idle /\ NoMatching
    /\ design_columns = <<>>
    /\ \E cs \in FilterContrastLists, e \in EntitySet :
           contrast_info = WithEntities(cs, e)
    /\ \E ms \in MetaLists, ne \in 0..MaxInputs, nv \in 0..MaxInputs, size \in 1..MaxInputs :
           /\ stat_metadata = Chunks(ms, size)
           /\ in_effect_maps = Chunks(SubSeq(EffectFiles, 1, ne), size)
           /\ in_variance_maps = Chunks(SubSeq(VarianceFiles, 1, nv), size)

Init == InitSecond \/ InitFirst
Next == NextSecond \/ NextFirst
Spec == Init /\ [][Next]_vars

SpecFilter == InitFilter /\ [][NextSecond]_vars

SpecMatch == InitMatch /\ [][NextMatch]_vars

----------------------------------------------------------------------------
(* Properties. *)

SeqSet(s) == {s[i] : i \in 1..Len(s)}
Indices(n) == [i \in 1..n |-> i]
RankOf(n) == CHOOSE i \in 1..Len(RegNames) : RegNames[i] = n

\* the contrasts have been resolved
Resolved == pc \in {"fit", "loop", "done"}

\* every regressor that declaration d weighs with a non-zero weight is in R
Resolvable(d, R) ==
    \A r \in 1..Len(d.weights) : \A n \in DOMAIN d.weights[r] :
        d.weights[r][n] # 0 => n \in SeqSet(R)

\* every regressor that declaration d names is in R
NamesOnly(d, R) ==
    \A r \in 1..Len(d.weights) : \A n \in DOMAIN d.weights[r] : n \in SeqSet(R)

\* the positions of the resolvable declarations, in declaration order
Kept(R) ==
    SelectSeq(Indices(Len(contrast_info)), LAMBDA i : Resolvable(contrast_info[i], R))

KeptNamesOnly(R) ==
    SelectSeq(Indices(Len(contrast_info)), LAMBDA i : NamesOnly(contrast_info[i], R))

\* resolved contrast k holds the declared weights of declaration d in the order of R
WeightsFollow(k, d, R) ==
    LET w == contrasts[k][2]
    IN  /\ Len(w) = Len(d.weights)
        /\ \A i \in 1..Len(w) :
               /\ Len(w[i]) = Len(R)
               /\ \A j \in 1..Len(R) :
                      w[i][j] = IF R[j] \in DOMAIN d.weights[i] THEN d.weights[i][R[j]] ELSE 0

\* C1: every declaration whose non-zero-weight regressors are all in the
\* regressor list R is resolved to a matrix with one row per declared row and
\* |R| columns in the order of R, entry (i, j) being the weight row i declares
\* for R[j], and 0 when row i does not name R[j].
C1_ResolvedWeights ==
    Resolved =>
        LET R == mat.columns
            keep == Kept(R)
        IN  /\ Len(contrasts) = Len(keep)
            /\ \A k \in 1..Len(keep) : WeightsFollow(k, contrast_info[keep[k]], R)

C1_Witness ==
    /\ Resolved /\ iface = "first"
    /\ mat.columns = <<"B", "A">>
    /\ Len(contrast_info) = 1
    /\ contrast_info[1].weights = <<[A |-> 1], [B |-> 1]>>
    /\ Len(contrasts) = 1
    /\ contrasts[1][2] = << <<0, 1>>, <<1, 0>> >>

\* C2 as stated: a declaration that names a regressor absent from the
\* regressor list, with whatever weight, is left out; the others stay in
\* declaration order.
C2_DropsAnyAbsentName ==
    Resolved =>
        LET R == mat.columns
            keep == KeptNamesOnly(R)
        IN  /\ Len(contrasts) =
                   Len(contrast_info)
                   - Cardinality({i \in 1..Len(contrast_info) : ~NamesOnly(contrast_info[i], R)})
            /\ Len(contrasts) = Len(keep)
            /\ \A k \in 1..Len(keep) :
                   /\ contrasts[k][1] = contrast_info[keep[k]].name
                   /\ contrasts[k][3] = contrast_info[keep[k]].type

\* C2, amended: a declaration is left out exactly when it gives a non-zero
\* weight to a regressor absent from the regressor list; the resolved list is
\* shorter by one per such declaration, the others stay in declaration order
\* without gaps, and no error is raised.
C2_DropsNonZeroAbsent ==
    Resolved =>
        LET R == mat.columns
            keep == Kept(R)
        IN  /\ error = ""
            /\ Len(contrasts) =
                   Len(contrast_info)
                   - Cardinality({i \in 1..Len(contrast_info) : ~Resolvable(contrast_info[i], R)})
            /\ Len(contrasts) = Len(keep)
            /\ \A k \in 1..Len(keep) :
                   /\ contrasts[k][1] = contrast_info[keep[k]].name
                   /\ contrasts[k][3] = contrast_info[keep[k]].type

C2_Witness ==
    /\ Resolved
    /\ Len(contrast_info) = 2
    /\ ~Resolvable(contrast_info[1], mat.columns)
    /\ Resolvable(contrast_info[2], mat.columns)
    /\ ~NamesOnly(contrast_info[2], mat.columns)
    /\ Len(contrasts) = 1
    /\ contrasts[1][1] = contrast_info[2].name

\* C3 as stated: _match is true exactly when every key of the query is in the
\* candidate with an equal value; a key added to the candidate that the query
\* does not have leaves the result as it was, and the removal of a key the
\* query requires makes it false.
C3_MatchExactOnQueryKeys ==
    /\ pc \in {"called", "edited"} =>
           (matched <=> \A k \in DOMAIN query :
                            k \in DOMAIN candidate /\ candidate[k] = query[k])
    /\ edit = "add" => matched = prev_matched
    /\ edit = "remove" => matched = FALSE

HasNonFema == \E k \in 1..Len(contrasts) : contrasts[k][3] # "FEMA"

NothingProduced ==
    /\ files = EmptyDict /\ results = EmptyDict
    /\ effect_maps = <<>> /\ variance_maps = <<>> /\ stat_maps = <<>>
    /\ zscore_maps = <<>> /\ pvalue_maps = <<>>

\* C5: a second-level run with a resolved contrast that is not FEMA and fewer
\* than two filtered inputs never goes on to fit or to the contrast loop: it
\* ends in the RuntimeError, with no model fitted, no file written and no
\* result set; a run whose resolved contrasts are all FEMA never raises it.
C5_TooFewInputsAbort ==
    iface = "second" =>
        /\ (Resolved /\ HasNonFema /\ Len(filtered_effects) < 2) => pc = "fit"
        /\ (pc = "error" /\ error = "RuntimeError") =>
               /\ HasNonFema /\ Len(filtered_effects) < 2
               /\ ~fitted /\ NothingProduced /\ contrast_metadata = <<>>
        /\ fitted => (HasNonFema /\ Len(filtered_effects) >= 2)
        /\ pc = "error" => results = EmptyDict
        /\ (Resolved /\ ~HasNonFema) => error = ""

C5_Witness ==
    /\ iface = "second"
    /\ pc = "error" /\ error = "RuntimeError"
    /\ Len(filtered_effects) = 1
    /\ Len(contrasts) = 2
    /\ contrasts[1][3] = "FEMA"

KindOfKey ==
    [effect_maps |-> "effect_size", variance_maps |-> "effect_variance",
     stat_maps |-> "stat", zscore_maps |-> "z_score", pvalue_maps |-> "p_value"]

\* C6 as stated: every returned path sequence zips with contrast_metadata:
\* entry i of each is the map of the contrast of metadata record i.
C6_SequencesZipWithMetadata ==
    pc = "done" =>
        \A key \in (DOMAIN KindOfKey) \cap (DOMAIN results) :
            /\ Len(results[key]) = Len(results["contrast_metadata"])
            /\ \A i \in 1..Len(results[key]) :
                   results[key][i] = fname_fmt(contrasts[i][1], KindOfKey[key])

\* the records emitted so far are those of the contrasts reached so far
OnePerContrast ==
    /\ Len(contrast_metadata) <= Len(contrasts)
    /\ pc = "loop" => Len(contrast_metadata) = ci - 1
    /\ pc = "done" =>
           /\ Len(contrast_metadata) = Len(contrasts)
           /\ results["contrast_metadata"] = contrast_metadata

\* C7 as stated: one record per resolved contrast in processing order, each
\* with every query entity, contrast equal to the declared name and stat equal
\* to the declared type.
C7_MetadataNamesContrast ==
    /\ OnePerContrast
    /\ \A i \in 1..Len(contrast_metadata) :
           LET rec == contrast_metadata[i]
           IN  /\ \A k \in DOMAIN out_ents : k \in DOMAIN rec /\ rec[k] = out_ents[k]
               /\ rec["contrast"] = contrasts[i][1]
               /\ rec["stat"] = contrasts[i][3]

\* C7, amended: one record per resolved contrast in processing order, each with
\* every query entity and no other key than contrast and stat; contrast is the
\* declared name and stat the declared type unless the entities have a key of
\* that name, whose value then stands in the record.
C7_MetadataEntitiesWin ==
    /\ OnePerContrast
    /\ \A i \in 1..Len(contrast_metadata) :
           LET rec == contrast_metadata[i]
           IN  /\ DOMAIN rec = (DOMAIN out_ents) \cup {"contrast", "stat"}
               /\ \A k \in DOMAIN out_ents : rec[k] = out_ents[k]
               /\ "contrast" \notin DOMAIN out_ents => rec["contrast"] = contrasts[i][1]
               /\ "stat" \notin DOMAIN out_ents => rec["stat"] = contrasts[i][3]

C7_Witness ==
    /\ pc = "done"
    /\ Len(contrasts) = 2
    /\ iface = "second" /\ Len(names) = 2
    /\ "contrast" \in DOMAIN out_ents
    /\ contrast_metadata[1]["contrast"] # contrasts[1][1]
    /\ contrast_metadata[2]["stat"] # contrasts[2][3]

ListOf(kind) ==
    CASE kind = "effect_size" -> effect_maps
      [] kind = "effect_variance" -> variance_maps
      [] kind = "stat" -> stat_maps
      [] kind = "z_score" -> zscore_maps
      [] kind = "p_value" -> pvalue_maps

\* the contrasts whose maps are stored and that have a map of this kind
Producers(kind) ==
    SelectSeq(Indices(ci - 1),
              LAMBDA i : \/ iface = "first"
                         \/ kind \in {"effect_size", "effect_variance", "stat"}
                         \/ contrasts[i][3] # "FEMA")

\* C8 as stated: no two resolved contrasts of one run write the same path of
\* any map kind: the paths appended to a map list are all different.
C8_PathsNeverShared ==
    \A kind \in SeqSet(MapTypes) :
        \A k, l \in 1..Len(ListOf(kind)) : k # l => ListOf(kind)[k] # ListOf(kind)[l]

DesignBuilt == iface = "second" /\ Resolved

\* one row per filtered input, one column per distinct name, a single 1 per
\* row, in the column of the input's name
OneHot ==
    /\ Len(mat.rows) = Len(names)
    /\ SeqSet(mat.columns) = SeqSet(names)
    /\ \A j, l \in 1..Len(mat.columns) : j # l => mat.columns[j] # mat.columns[l]
    /\ \A i \in 1..Len(names) :
           /\ Len(mat.rows[i]) = Len(mat.columns)
           /\ \A j \in 1..Len(mat.columns) :
                  mat.rows[i][j] = IF mat.columns[j] = names[i] THEN 1 ELSE 0
           /\ Cardinality({j \in 1..Len(mat.columns) : mat.rows[i][j] = 1}) = 1

\* the resolved contrasts follow the column order of the design
ResolvedOnColumns ==
    LET keep == Kept(mat.columns)
    IN  /\ Len(contrasts) = Len(keep)
        /\ \A k \in 1..Len(keep) : WeightsFollow(k, contrast_info[keep[k]], mat.columns)

\* C9 as stated: the Grouping Design is one-hot over the filtered names, with
\* its columns in the order in which the distinct names first appear, and the
\* contrasts are resolved against that column order.
C9_ColumnsFirstSeen ==
    DesignBuilt =>
        /\ OneHot
        /\ mat.columns = FirstSeen(names)
        /\ ResolvedOnColumns

\* C9, amended: the Grouping Design is one-hot over the filtered names, with
\* its columns in ascending order of the distinct names, and the contrasts are
\* resolved against that column order.
C9_ColumnsAscending ==
    DesignBuilt =>
        /\ OneHot
        /\ \A j, l \in 1..Len(mat.columns) :
               j < l => RankOf(mat.columns[j]) < RankOf(mat.columns[l])
        /\ ResolvedOnColumns

C9_Witness ==
    /\ DesignBuilt
    /\ names = <<"B", "A">>
    /\ mat.columns = <<"A", "B">>
    /\ Len(contrasts) = 1
    /\ contrasts[1][2] = << <<0, 0>>, <<0, 1>> >>

\* the names that some row of the weight matrix weighs with a non-zero weight
Weighted(weights) ==
    {mat.columns[j] : j \in {j \in 1..Len(mat.columns) :
                               \E i \in 1..Len(weights) : weights[i][j] # 0}}

\* C10 as stated: every retained FEMA contrast, whatever its rows, is combined
\* from the effect/variance pairs of the filtered inputs whose name has a
\* non-zero weight in its weight matrix, in filtered order, and its outputs are
\* the combiner's effect, variance and statistic, with no z-score or p-value.
C10_FemaCombinesWeighted ==
    iface = "second" =>
        /\ ~(pc = "error" /\ error = "IndexError" /\ Len(contrast_info) > 0)
        /\ (pc \in {"loop", "done"} /\ ci > 1 /\ contrasts[ci - 1][3] = "FEMA") =>
               LET name == contrasts[ci - 1][1]
                   sel == SelectSeq(Indices(Len(names)),
                                    LAMBDA i : names[i] \in Weighted(contrasts[ci - 1][2]))
                   effs == [k \in 1..Len(sel) |-> filtered_effects[sel[k]]]
                   vars_ == [k \in 1..Len(sel) |-> filtered_variances[sel[k]]]
               IN  /\ \A kind \in {"effect_size", "effect_variance", "stat"} :
                          /\ fname_fmt(name, kind) \in DOMAIN files
                          /\ files[fname_fmt(name, kind)] = FfxMap(kind, effs, vars_)
                   /\ Len(zscore_maps) = Len(Producers("z_score"))
                   /\ Len(pvalue_maps) = Len(Producers("p_value"))

====
